---- MODULE Spec2Model ----
(***************************************************************************)
(* Validation rules of the DANM network admission controller               *)
(* (pkg/netadmit/validators.go).                                           *)
(*                                                                         *)
(* A net.IP / net.IPMask is a sequence of bytes (length 0 = nil, 4 or 16). *)
(* A uint32 is written as its four base-256 digits, most significant       *)
(* first, so that the arithmetic keeps the full 32-bit width.              *)
(* A string holding an address or a CIDR is a record                       *)
(*   [k, f, plen]: k = "empty"  the empty string                           *)
(*                 k = "junk"   text that is neither an address nor a CIDR *)
(*                 k = "v4"     dotted quad with decimal fields f          *)
(*                 k = "v6"     IPv6 text denoting the 16 bytes f          *)
(*                 k = "cidr4"  dotted quad f, "/", decimal plen           *)
(*                 k = "cidr6"  IPv6 text f, "/", decimal plen             *)
(***************************************************************************)
EXTENDS Integers, Sequences, FiniteSets, TLC

\* Number of direct rule calls made on one manifest under Spec.
MaxCalls == 2
\* Number of admission requests made for one network under SpecLifecycle.
MaxAdmissions == 2

\* Number of routes in a routes mapping.
MaxRoutes == 2

MaxNidLength == 12

Create == "CREATE"
Update == "UPDATE"

\* ------------------------------------------------------------------ strings
EmptyStr == [k |-> "empty", f |-> <<>>, plen |-> 0]
Junk == [k |-> "junk", f |-> <<>>, plen |-> 0]
NilText == [k |-> "junk", f |-> <<>>, plen |-> 1]
T4(a, b, c, d) == [k |-> "v4", f |-> <<a, b, c, d>>, plen |-> 0]
T6(bytes) == [k |-> "v6", f |-> bytes, plen |-> 0]
C4(a, b, c, d, p) == [k |-> "cidr4", f |-> <<a, b, c, d>>, plen |-> p]
C6(bytes, p) == [k |-> "cidr6", f |-> bytes, plen |-> p]

\* ------------------------------------------------------------ bytes, uint32
Nil == <<>>
\* The value of an expression whose evaluation panics (index out of range,
\* nil dereference).
Panic == <<-1>>

RECURSIVE OrBits(_, _, _)
OrBits(a, b, n) ==
  IF n = 0 THEN 0
  ELSE (IF a % 2 = 1 \/ b % 2 = 1 THEN 1 ELSE 0) + 2 * OrBits(a \div 2, b \div 2, n - 1)

RECURSIVE AndBits(_, _, _)
AndBits(a, b, n) ==
  IF n = 0 THEN 0
  ELSE (IF a % 2 = 1 /\ b % 2 = 1 THEN 1 ELSE 0) + 2 * AndBits(a \div 2, b \div 2, n - 1)

ByteOr(a, b) == OrBits(a, b, 8)
ByteAnd(a, b) == AndBits(a, b, 8)
ByteNot(a) == 255 - a

U32Or(x, y) == [i \in 1..4 |-> ByteOr(x[i], y[i])]
U32Not(x) == [i \in 1..4 |-> ByteNot(x[i])]

RECURSIVE IncAt(_, _)
IncAt(x, i) ==
  IF i = 0 THEN x
  ELSE IF x[i] < 255 THEN [x EXCEPT ![i] = @ + 1]
  ELSE IncAt([x EXCEPT ![i] = 0], i - 1)

RECURSIVE DecAt(_, _)
DecAt(x, i) ==
  IF i = 0 THEN x
  ELSE IF x[i] > 0 THEN [x EXCEPT ![i] = @ - 1]
  ELSE DecAt([x EXCEPT ![i] = 255], i - 1)

\* x + 1 and x - 1 in uint32 (wrapping at 2^32).
U32Add1(x) == IncAt(x, 4)
U32Sub1(x) == DecAt(x, 4)

RECURSIVE LexLeq(_, _, _)
LexLeq(x, y, i) ==
  IF i > Len(x) THEN TRUE
  ELSE IF x[i] < y[i] THEN TRUE
  ELSE IF x[i] > y[i] THEN FALSE
  ELSE LexLeq(x, y, i + 1)

\* x <= y on uint32.
U32Leq(x, y) == LexLeq(x, y, 1)

\* binary.BigEndian.Uint32(b): reads b[0..3]; panics on a shorter slice.
BigEndianUint32(b) == IF Len(b) < 4 THEN Panic ELSE SubSeq(b, 1, 4)

\* binary.BigEndian.PutUint32(b, v): writes b[0..3]; panics on a shorter slice.
BigEndianPutUint32(b, v) ==
  IF Len(b) < 4 THEN Panic ELSE v \o SubSeq(b, 5, Len(b))

\* make(net.IP, n)
MakeIP(n) == [i \in 1..n |-> 0]

\* --------------------------------------------------------------- package net
V4InV6Prefix == <<0, 0, 0, 0, 0, 0, 0, 0, 0, 0, 255, 255>>

\* net.IP.To4: the 4-byte form of an IPv4 address, nil otherwise.
To4(ip) ==
  IF Len(ip) = 4 THEN ip
  ELSE IF Len(ip) = 16 /\ SubSeq(ip, 1, 12) = V4InV6Prefix THEN SubSeq(ip, 13, 16)
  ELSE Nil

\* net.CIDRMask(ones, bits)
CIDRMask(ones, bits) ==
  [i \in 1..(bits \div 8) |->
     LET r == ones - 8 * (i - 1)
     IN IF r >= 8 THEN 255 ELSE IF r <= 0 THEN 0 ELSE 256 - 2^(8 - r)]

\* net.IP.Mask(mask)
IPMask(ip, mask) ==
  LET m == IF Len(mask) = 16 /\ Len(ip) = 4 /\ \A i \in 1..12 : mask[i] = 255
           THEN SubSeq(mask, 13, 16) ELSE mask
      a == IF Len(m) = 4 /\ Len(ip) = 16 /\ SubSeq(ip, 1, 12) = V4InV6Prefix
           THEN SubSeq(ip, 13, 16) ELSE ip
  IN IF Len(a) # Len(m) THEN Nil
     ELSE [i \in 1..Len(a) |-> ByteAnd(a[i], m[i])]

\* net.ParseIP(s): the 16-byte form of the address s denotes, nil when s is
\* not the text of an address.
ParseIP(s) ==
  IF s.k = "v4" /\ \A i \in 1..4 : s.f[i] <= 255 THEN V4InV6Prefix \o s.f
  ELSE IF s.k = "v6" THEN s.f
  ELSE Nil

\* net.ParseCIDR(s): [ok, IP, Mask], IP and Mask being those of the *IPNet.
ParseCIDR(s) ==
  LET bits == IF s.k = "cidr4" THEN 32 ELSE 128
      ip == IF s.k = "cidr4" THEN ParseIP([s EXCEPT !.k = "v4"])
            ELSE IF s.k = "cidr6" THEN ParseIP([s EXCEPT !.k = "v6"])
            ELSE Nil
  IN IF ip = Nil \/ s.plen > bits THEN [ok |-> FALSE, IP |-> Nil, Mask |-> Nil]
     ELSE [ok |-> TRUE,
           IP |-> IPMask(ip, CIDRMask(s.plen, bits)),
           Mask |-> CIDRMask(s.plen, bits)]

\* net.networkNumberAndMask(n)
NetworkNumberAndMask(n) ==
  LET ip == IF To4(n.IP) # Nil THEN To4(n.IP) ELSE n.IP
      m == n.Mask
  IN IF To4(n.IP) = Nil /\ Len(n.IP) # 16 THEN [ip |-> Nil, m |-> Nil]
     ELSE IF Len(m) = 4 THEN
            (IF Len(ip) # 4 THEN [ip |-> Nil, m |-> Nil] ELSE [ip |-> ip, m |-> m])
     ELSE IF Len(m) = 16 THEN
            (IF Len(ip) = 4 THEN [ip |-> ip, m |-> SubSeq(m, 13, 16)]
             ELSE [ip |-> ip, m |-> m])
     ELSE [ip |-> Nil, m |-> Nil]

\* Contains with the address compared unmasked against the network number.
ContainsUnmasked(n, ip) ==
  LET nm == NetworkNumberAndMask(n)
      x == IF To4(ip) # Nil THEN To4(ip) ELSE ip
  IN /\ Len(x) = Len(nm.ip)
     /\ \A i \in 1..Len(x) : nm.ip[i] = x[i]

\* (*net.IPNet).Contains(ip)
Contains(n, ip) ==
  LET nm == NetworkNumberAndMask(n)
      x == IF To4(ip) # Nil THEN To4(ip) ELSE ip
  IN /\ Len(x) = Len(nm.ip)
     /\ \A i \in 1..Len(x) : ByteAnd(nm.ip[i], nm.m[i]) = ByteAnd(x[i], nm.m[i])

\* net.IP.String(): dotted quad for an IPv4 address in either form, IPv6
\* text otherwise, "<nil>" for a nil address.
IPString(ip) ==
  IF Len(ip) = 0 THEN NilText
  ELSE IF To4(ip) # Nil THEN [k |-> "v4", f |-> To4(ip), plen |-> 0]
  ELSE T6(ip)

\* ------------------------------------------------------------------- errors
\* An error value: its message template and the strings spliced into it.
Err(msg, a, b) == [msg |-> msg, a |-> a, b |-> b]
NoErr == Err("nil", EmptyStr, EmptyStr)
\* The outcome of a call that panicked instead of returning.
PanicErr == Err("panic", EmptyStr, EmptyStr)

MsgRoutesL2 == "IP routes cannot be defined for a L2 network"
MsgInvalidCidr == "Invalid CIDR: "
MsgGwOutside == "Specified GW address: is not part of CIDR:"
MsgAllocPreset == "Allocation bitmask shall not be manually defined upon creation!"
MsgPoolNoCidr == "Allocation pool cannot be defined without CIDR!"
MsgInvalidCidrParam == "Invalid CIDR parameter: "
MsgPoolOutside == "Allocation pool is outside of defined CIDR"
MsgPoolInverted == "Allocation pool start: is bigger than or equal to allocation pool end:"
MsgVids == "VLAN ID and VxLAN ID parameters are mutually exclusive"
MsgNidMissing == "Spec.NetworkID mandatory parameter is missing!"
MsgNidLong == "Spec.NetworkID cannot be longer than 12 characters"
MsgAllowedTenants == "AllowedTenants attribute is only valid for the ClusterNetwork API!"
MsgTenantCreate == "Manually configuring any one of host_device, vlan, or vxlan attributes is not allowed for TenantNetworks!"
MsgTenantUpdate == "Manually changing any one of host_device, vlan, or vxlan attributes is not allowed for TenantNetworks!"

\* ------------------------------------------------------------ package ipam
\* ipam.Ip2int: the uint32 in the last four bytes of a 16-byte address,
\* else the uint32 in the address's first four bytes.
Ip2int(ip) == IF Len(ip) = 16 THEN BigEndianUint32(SubSeq(ip, 13, 16)) ELSE BigEndianUint32(ip)

\* ipam.Int2ip: the 4-byte address holding the uint32.
Int2ip(nn) == BigEndianPutUint32(MakeIP(4), nn)

\* -------------------------------------------------------------- validators
\* A rule's result is the set of outcomes [err, m] a call may have: the
\* error returned (NoErr for nil, PanicErr when the call panics) and the
\* candidate manifest as the call leaves it.
Outcome(err, m) == [err |-> err, m |-> m]

\* validateIpFields: the errors a call may return (which offending gateway
\* is reported depends on Go's map iteration order).
validateIpFields(cidr, routes) ==
  IF cidr = EmptyStr THEN
    (IF ~routes.isNil THEN {Err(MsgRoutesL2, EmptyStr, EmptyStr)} ELSE {NoErr})
  ELSE
    LET ipnet == ParseCIDR(cidr)
        bad == {d \in DOMAIN routes.gw : ~Contains(ipnet, ParseIP(routes.gw[d]))}
    IN IF ~ipnet.ok THEN {Err(MsgInvalidCidr, cidr, EmptyStr)}
       ELSE IF bad # {} THEN {Err(MsgGwOutside, routes.gw[d], cidr) : d \in bad}
       ELSE {NoErr}

validateIpv4Fields(oldManifest, newManifest, opType) ==
  {Outcome(e, newManifest) : e \in validateIpFields(newManifest.Cidr, newManifest.Routes)}

validateIpv6Fields(oldManifest, newManifest, opType) ==
  {Outcome(e, newManifest) : e \in validateIpFields(newManifest.Net6, newManifest.Routes6)}

GetBroadcastAddress(subnet) ==
  LET ip == MakeIP(Len(To4(subnet.IP)))
      a == BigEndianUint32(To4(subnet.IP))
      m == BigEndianUint32(To4(subnet.Mask))
  IN IF a = Panic \/ m = Panic THEN Panic
     ELSE BigEndianPutUint32(ip, U32Or(a, U32Not(m)))

\* Lines 74-76: pool.start defaulted to network address + 1 when empty.
DefaultStart(m, ipnet) ==
  IF m.Start = EmptyStr
  THEN [m EXCEPT !.Start = IPString(Int2ip(U32Add1(Ip2int(ipnet.IP))))]
  ELSE m

\* Lines 77-79: pool.end defaulted to broadcast address - 1 when empty
\* (called only when GetBroadcastAddress returns).
DefaultEnd(m, ipnet) ==
  IF m.End = EmptyStr
  THEN [m EXCEPT !.End = IPString(Int2ip(U32Sub1(Ip2int(GetBroadcastAddress(ipnet)))))]
  ELSE m

\* Lines 80-86: the checks on the defaulted pool.
CheckPool(m, ipnet) ==
  IF ~Contains(ipnet, ParseIP(m.Start)) \/ ~Contains(ipnet, ParseIP(m.End))
  THEN Err(MsgPoolOutside, EmptyStr, EmptyStr)
  ELSE IF U32Leq(Ip2int(ParseIP(m.End)), Ip2int(ParseIP(m.Start)))
  THEN Err(MsgPoolInverted, m.Start, m.End)
  ELSE NoErr

\* The alloc check made on the wrong operation.
AllocPresetOnUpdate(m, opType) == opType = Update /\ m.Alloc # ""

\* Line 60: the allocation bitmask is preset on creation.
AllocPresetOnCreate(m, opType) == opType = Create /\ m.Alloc # ""

\* The pool rule with the checks made on the bounds as read before defaulting.
validateAllocationPoolStale(oldManifest, newManifest, opType) ==
  IF AllocPresetOnCreate(newManifest, opType)
  THEN {Outcome(Err(MsgAllocPreset, EmptyStr, EmptyStr), newManifest)}
  ELSE IF newManifest.Cidr = EmptyStr THEN
    (IF newManifest.Start # EmptyStr \/ newManifest.End # EmptyStr
     THEN {Outcome(Err(MsgPoolNoCidr, EmptyStr, EmptyStr), newManifest)}
     ELSE {Outcome(NoErr, newManifest)})
  ELSE
    LET ipnet == ParseCIDR(newManifest.Cidr)
        m1 == DefaultStart(newManifest, ipnet)
    IN IF ~ipnet.ok
       THEN {Outcome(Err(MsgInvalidCidrParam, newManifest.Cidr, EmptyStr), newManifest)}
       ELSE IF m1.End = EmptyStr /\ GetBroadcastAddress(ipnet) = Panic
       THEN {Outcome(PanicErr, m1)}
       ELSE {Outcome(CheckPool(newManifest, ipnet), DefaultEnd(m1, ipnet))}

validateAllocationPool(oldManifest, newManifest, opType) ==
  IF AllocPresetOnCreate(newManifest, opType)
  THEN {Outcome(Err(MsgAllocPreset, EmptyStr, EmptyStr), newManifest)}
  ELSE IF newManifest.Cidr = EmptyStr THEN
    (IF newManifest.Start # EmptyStr \/ newManifest.End # EmptyStr
     THEN {Outcome(Err(MsgPoolNoCidr, EmptyStr, EmptyStr), newManifest)}
     ELSE {Outcome(NoErr, newManifest)})
  ELSE
    LET ipnet == ParseCIDR(newManifest.Cidr)
        m1 == DefaultStart(newManifest, ipnet)
    IN IF ~ipnet.ok
       THEN {Outcome(Err(MsgInvalidCidrParam, newManifest.Cidr, EmptyStr), newManifest)}
       ELSE IF m1.End = EmptyStr /\ GetBroadcastAddress(ipnet) = Panic
       THEN {Outcome(PanicErr, m1)}
       ELSE {Outcome(CheckPool(DefaultEnd(m1, ipnet), ipnet), DefaultEnd(m1, ipnet))}

validateVids(oldManifest, newManifest, opType) ==
  LET isVlanDefined == newManifest.Vlan # 0
      isVxlanDefined == newManifest.Vxlan # 0
  IN IF isVlanDefined /\ isVxlanDefined
     THEN {Outcome(Err(MsgVids, EmptyStr, EmptyStr), newManifest)}
     ELSE {Outcome(NoErr, newManifest)}

validateNetworkId(oldManifest, newManifest, opType) ==
  IF newManifest.NetworkID = <<>>
  THEN {Outcome(Err(MsgNidMissing, EmptyStr, EmptyStr), newManifest)}
  ELSE IF Len(newManifest.NetworkID) > MaxNidLength
  THEN {Outcome(Err(MsgNidLong, EmptyStr, EmptyStr), newManifest)}
  ELSE {Outcome(NoErr, newManifest)}

validateAbsenceOfAllowedTenants(oldManifest, newManifest, opType) ==
  IF ~newManifest.AllowedTenants.isNil
  THEN {Outcome(Err(MsgAllowedTenants, EmptyStr, EmptyStr), newManifest)}
  ELSE {Outcome(NoErr, newManifest)}

\* The creation check without the vlan test.
TenantCreateViolationNoVlan(m, opType) ==
  opType = Create /\ (m.Device # "" \/ m.Vxlan # 0)

\* Lines 123-126: a host attachment attribute is set on creation.
TenantCreateViolation(m, opType) ==
  opType = Create /\ (m.Device # "" \/ m.Vxlan # 0 \/ m.Vlan # 0)

\* The update check without the vlan comparison.
TenantUpdateViolationNoVlan(old, m, opType) ==
  opType = Update /\ (m.Device # old.Device \/ m.Vxlan # old.Vxlan)

\* Lines 129-132: a host attachment attribute differs from the previous
\* manifest's (old is the manifest oldManifest points to).
TenantUpdateViolation(old, m, opType) ==
  opType = Update /\ (m.Device # old.Device \/ m.Vxlan # old.Vxlan \/ m.Vlan # old.Vlan)

\* oldManifest is <<>> for a nil pointer and <<old>> otherwise; it is
\* dereferenced only when opType is Update.
validateTenantNetRules(oldManifest, newManifest, opType) ==
  IF TenantCreateViolation(newManifest, opType)
  THEN {Outcome(Err(MsgTenantCreate, EmptyStr, EmptyStr), newManifest)}
  ELSE IF opType = Update /\ oldManifest = <<>>
  THEN {Outcome(PanicErr, newManifest)}
  ELSE IF opType = Update /\ TenantUpdateViolation(oldManifest[1], newManifest, opType)
  THEN {Outcome(Err(MsgTenantUpdate, EmptyStr, EmptyStr), newManifest)}
  ELSE {Outcome(NoErr, newManifest)}

DanmNetMapping ==
  <<"validateIpv4Fields", "validateIpv6Fields", "validateAllocationPool",
    "validateVids", "validateNetworkId", "validateAbsenceOfAllowedTenants">>
ClusterNetMapping ==
  <<"validateIpv4Fields", "validateIpv6Fields", "validateAllocationPool",
    "validateVids", "validateNetworkId">>
TenantNetMapping ==
  <<"validateIpv4Fields", "validateIpv6Fields", "validateAllocationPool",
    "validateNetworkId", "validateAbsenceOfAllowedTenants", "validateTenantNetRules">>

Kinds == {"DanmNet", "ClusterNetwork", "TenantNetwork"}

danmValidationConfig ==
  [k \in Kinds |->
     IF k = "DanmNet" THEN DanmNetMapping
     ELSE IF k = "ClusterNetwork" THEN ClusterNetMapping
     ELSE TenantNetMapping]

\* ------------------------------------------------------------------- state
VARIABLES
  kind,         \* resource kind of the request
  policy,       \* the caller's aggregation policy
  opType,       \* admissionv1.Operation of the request
  oldManifest,  \* <<>> (nil) or <<previous manifest>>
  newManifest,  \* the candidate manifest, written in place by the pool rule
  pc,           \* "idle", "running", "accepted", "rejected", "crashed"
  idx,          \* position in the kind's rule list of the next rule to run
  failed,       \* some rule of the running chain returned an error
  last,         \* the last rule call: [rule, err, pre], pre the candidate before it
  poolHist,     \* the last two calls of the pool rule on this candidate
  nCalls,       \* rule calls made so far
  stored,       \* <<>> or <<the manifest persisted by the last accepted request>>
  admitted      \* admission requests submitted so far

vars ==
  <<kind, policy, opType, oldManifest, newManifest, pc, idx, failed, last,
    poolHist, nCalls, stored, admitted>>

\* ------------------------------------------------------------------ inputs
NilMap == [isNil |-> TRUE, gw |-> <<>>]
Map(gws) == [isNil |-> FALSE, gw |-> gws]
NilList == [isNil |-> TRUE, items |-> <<>>]
List(items) == [isNil |-> FALSE, items |-> items]
Nid(n) == [i \in 1..n |-> "n"]

\* fd00::<mid>:0:0:<lo>
Fd00(mid, lo) == <<253, 0, 0, 0, 0, 0, 0, 0, 0, mid, 0, 0, 0, 0, 0, lo>>
\* ::ffff:10.0.0.<lo>
Mapped10(lo) == V4InV6Prefix \o <<10, 0, 0, lo>>

CidrTexts ==
  {EmptyStr, Junk,
   C4(10, 0, 0, 0, 24), C4(10, 0, 0, 5, 30), C4(10, 0, 0, 0, 31),
   C4(255, 255, 255, 255, 32), C4(0, 0, 0, 0, 32), C4(0, 0, 0, 0, 0),
   C4(10, 0, 0, 0, 33),
   C6(Fd00(0, 0), 64), C6(Mapped10(0), 120)}

PoolTexts ==
  {EmptyStr, Junk,
   T4(10, 0, 0, 0), T4(10, 0, 0, 1), T4(10, 0, 0, 5), T4(10, 0, 0, 6), T4(10, 0, 0, 200),
   T4(10, 0, 0, 255), T4(10, 0, 1, 1),
   T6(Fd00(0, 9)), T6(Fd00(1, 5))}

GwTexts ==
  {T4(10, 0, 0, 1), T4(10, 0, 1, 1), T4(10, 0, 0, 256), T6(Fd00(0, 9)), T6(Mapped10(7))}

\* The CIDR strings tried with routes.
RouteCidrTexts ==
  {EmptyStr, Junk, C4(10, 0, 0, 5, 24), C4(10, 0, 0, 0, 33), C6(Fd00(0, 0), 64),
   C6(Mapped10(0), 120)}

Net6Texts == {EmptyStr, Junk, C6(Fd00(0, 0), 64), C4(10, 0, 0, 0, 24)}

\* Routes maps of at most MaxRoutes entries (the keys, destinations the
\* rules never read, are 1..n), and the nil map.
RouteMaps ==
  {NilMap} \cup {Map(g) : g \in UNION {[1..n -> GwTexts] : n \in 0..MaxRoutes}}

Base ==
  [Cidr |-> EmptyStr, Net6 |-> EmptyStr, Routes |-> NilMap, Routes6 |-> NilMap,
   Start |-> EmptyStr, End |-> EmptyStr, Alloc |-> "", Vlan |-> 0, Vxlan |-> 0,
   NetworkID |-> Nid(3), AllowedTenants |-> NilList, Device |-> ""]

Ip4Slice == {[Base EXCEPT !.Cidr = c, !.Routes = r] : c \in RouteCidrTexts, r \in RouteMaps}
Ip6Slice == {[Base EXCEPT !.Net6 = c, !.Routes6 = r] : c \in Net6Texts, r \in RouteMaps}
PoolSlice ==
  {[Base EXCEPT !.Cidr = c, !.Start = s, !.End = e, !.Alloc = a] :
     c \in CidrTexts, s \in PoolTexts, e \in PoolTexts, a \in {"", "gAA="}}
AttachSlice ==
  {[Base EXCEPT !.Vlan = v, !.Vxlan = x, !.Device = d] :
     v \in {0, 5}, x \in {0, 7}, d \in {"", "eth0", "eth1"}}
TagSlice ==
  {[m EXCEPT !.NetworkID = n, !.AllowedTenants = t] :
     m \in AttachSlice, n \in {Nid(0), Nid(MaxNidLength), Nid(MaxNidLength + 1)},
     t \in {NilList, List(<<"tenant-a">>)}}

\* The requests a caller may make: on Create there is no previous manifest,
\* on Update there is one.
Requests ==
  {[op |-> Create, old |-> <<>>, new |-> m] :
     m \in Ip4Slice \cup Ip6Slice \cup PoolSlice \cup TagSlice}
  \cup {[op |-> Update, old |-> <<Base>>, new |-> m] :
     m \in Ip4Slice \cup Ip6Slice \cup PoolSlice}
  \cup {[op |-> Update, old |-> <<o>>, new |-> m] : o \in AttachSlice, m \in TagSlice}

\* The candidates submitted over a network's life.
LifecycleCandidates ==
  TagSlice \cup
  {[Base EXCEPT !.Cidr = C4(10, 0, 0, 0, 24), !.Start = s, !.Alloc = a] :
     s \in {EmptyStr, T4(10, 0, 0, 5)}, a \in {"", "gAA="}}
  \cup {[Base EXCEPT !.Cidr = C6(Fd00(0, 0), 64)]}

Policies == {"first-failure", "collect-all"}

NoCall(m) == [rule |-> "none", err |-> NoErr, pre |-> m]

\* ----------------------------------------------------------------- actions
\* The effect of one rule call with outcome r on the candidate and on the
\* record of calls.
Called(rule, r) ==
  /\ newManifest' = r.m
  /\ last' = [rule |-> rule, err |-> r.err, pre |-> newManifest]
  /\ poolHist' =
       IF rule = "validateAllocationPool"
       THEN (IF Len(poolHist) = 2 THEN Tail(poolHist) ELSE poolHist)
            \o <<[err |-> r.err, pre |-> newManifest, post |-> r.m]>>
       ELSE poolHist
  /\ nCalls' = nCalls + 1
  /\ UNCHANGED <<kind, policy, opType, oldManifest, stored, admitted>>

\* A rule called directly on the candidate, in any order and any number of
\* times; a panic is recovered by the caller.
Direct(rule, outcomes) ==
  /\ pc = "running"
  /\ nCalls < MaxCalls
  /\ \E r \in outcomes : Called(rule, r)
  /\ UNCHANGED <<pc, idx, failed>>

CallValidateIpv4Fields ==
  Direct("validateIpv4Fields", validateIpv4Fields(oldManifest, newManifest, opType))
CallValidateIpv6Fields ==
  Direct("validateIpv6Fields", validateIpv6Fields(oldManifest, newManifest, opType))
CallValidateAllocationPool ==
  Direct("validateAllocationPool", validateAllocationPool(oldManifest, newManifest, opType))
CallValidateVids ==
  Direct("validateVids", validateVids(oldManifest, newManifest, opType))
CallValidateNetworkId ==
  Direct("validateNetworkId", validateNetworkId(oldManifest, newManifest, opType))
CallValidateAbsenceOfAllowedTenants ==
  Direct("validateAbsenceOfAllowedTenants",
         validateAbsenceOfAllowedTenants(oldManifest, newManifest, opType))
CallValidateTenantNetRules ==
  Direct("validateTenantNetRules", validateTenantNetRules(oldManifest, newManifest, opType))

\* The rule at position idx of the kind's list, run by the webhook.  Under
\* "first-failure" no rule runs after a failed one; a panic ends the request.
InChain(rule, outcomes) ==
  /\ pc = "running"
  /\ idx <= Len(danmValidationConfig[kind])
  /\ danmValidationConfig[kind][idx] = rule
  /\ policy = "first-failure" => ~failed
  /\ \E r \in outcomes :
       /\ Called(rule, r)
       /\ pc' = IF r.err = PanicErr THEN "crashed" ELSE "running"
       /\ failed' = (failed \/ r.err # NoErr)
  /\ idx' = idx + 1

StepValidateIpv4Fields ==
  InChain("validateIpv4Fields", validateIpv4Fields(oldManifest, newManifest, opType))
StepValidateIpv6Fields ==
  InChain("validateIpv6Fields", validateIpv6Fields(oldManifest, newManifest, opType))
StepValidateAllocationPool ==
  InChain("validateAllocationPool", validateAllocationPool(oldManifest, newManifest, opType))
StepValidateVids ==
  InChain("validateVids", validateVids(oldManifest, newManifest, opType))
StepValidateNetworkId ==
  InChain("validateNetworkId", validateNetworkId(oldManifest, newManifest, opType))
StepValidateAbsenceOfAllowedTenants ==
  InChain("validateAbsenceOfAllowedTenants",
          validateAbsenceOfAllowedTenants(oldManifest, newManifest, opType))
StepValidateTenantNetRules ==
  InChain("validateTenantNetRules", validateTenantNetRules(oldManifest, newManifest, opType))

\* The webhook accepts the request: every rule of the list returned nil.
\* The candidate, with the pool rule's defaults, is what gets persisted.
Accept ==
  /\ pc = "running"
  /\ idx > Len(danmValidationConfig[kind])
  /\ ~failed
  /\ pc' = "accepted"
  /\ stored' = <<newManifest>>
  /\ UNCHANGED <<kind, policy, opType, oldManifest, newManifest, idx, failed, last,
                 poolHist, nCalls, admitted>>

\* The webhook rejects the request with the error(s) of the failed rule(s).
Reject ==
  /\ pc = "running"
  /\ failed
  /\ policy = "collect-all" => idx > Len(danmValidationConfig[kind])
  /\ pc' = "rejected"
  /\ UNCHANGED <<kind, policy, opType, oldManifest, newManifest, idx, failed, last,
                 poolHist, nCalls, stored, admitted>>

\* A request for the network arrives: a Create while nothing is persisted,
\* an Update of the persisted manifest afterwards.
Submit ==
  /\ pc \in {"idle", "accepted", "rejected", "crashed"}
  /\ admitted < MaxAdmissions
  /\ \E m \in LifecycleCandidates :
       /\ newManifest' = m
       /\ last' = NoCall(m)
  /\ opType' = IF stored = <<>> THEN Create ELSE Update
  /\ oldManifest' = stored
  /\ pc' = "running"
  /\ idx' = 1
  /\ failed' = FALSE
  /\ poolHist' = <<>>
  /\ admitted' = admitted + 1
  /\ UNCHANGED <<kind, policy, nCalls, stored>>

\* ---------------------------------------------------------- specifications
\* Spec: any rule called directly on any request's manifests.
Init ==
  /\ kind = "DanmNet"
  /\ policy = "first-failure"
  /\ \E q \in Requests :
       /\ opType = q.op
       /\ oldManifest = q.old
       /\ newManifest = q.new
       /\ last = NoCall(q.new)
  /\ pc = "running"
  /\ idx = 0
  /\ failed = FALSE
  /\ poolHist = <<>>
  /\ nCalls = 0
  /\ stored = <<>>
  /\ admitted = 0

Next ==
  \/ CallValidateIpv4Fields
  \/ CallValidateIpv6Fields
  \/ CallValidateAllocationPool
  \/ CallValidateVids
  \/ CallValidateNetworkId
  \/ CallValidateAbsenceOfAllowedTenants
  \/ CallValidateTenantNetRules

Spec == Init /\ [][Next]_vars

\* SpecChain: one request of any kind run through its kind's rule list.
InitChain ==
  /\ kind \in Kinds
  /\ policy \in Policies
  /\ \E q \in Requests :
       /\ opType = q.op
       /\ oldManifest = q.old
       /\ newManifest = q.new
       /\ last = NoCall(q.new)
  /\ pc = "running"
  /\ idx = 1
  /\ failed = FALSE
  /\ poolHist = <<>>
  /\ nCalls = 0
  /\ stored = <<>>
  /\ admitted = 1

NextChain ==
  \/ StepValidateIpv4Fields
  \/ StepValidateIpv6Fields
  \/ StepValidateAllocationPool
  \/ StepValidateVids
  \/ StepValidateNetworkId
  \/ StepValidateAbsenceOfAllowedTenants
  \/ StepValidateTenantNetRules
  \/ Accept
  \/ Reject

SpecChain == InitChain /\ [][NextChain]_vars

\* SpecLifecycle: a network created and then updated through the webhook.
InitLifecycle ==
  /\ kind \in Kinds
  /\ policy \in Policies
  /\ opType = Create
  /\ oldManifest = <<>>
  /\ newManifest = Base
  /\ last = NoCall(Base)
  /\ pc = "idle"
  /\ idx = 1
  /\ failed = FALSE
  /\ poolHist = <<>>
  /\ nCalls = 0
  /\ stored = <<>>
  /\ admitted = 0

NextLifecycle == Submit \/ NextChain

SpecLifecycle == InitLifecycle /\ [][NextLifecycle]_vars

\* ------------------------------------------------- what the claims speak of
\* These definitions say what the claims' words mean, in the 128-bit address
\* space and by arithmetic on the texts, without the rules' own helpers.

\* The address a text denotes (IPv4 addresses at ::ffff:a.b.c.d), <<>> if none.
AddrOf(s) ==
  IF s.k = "v4" /\ (\A i \in 1..4 : s.f[i] \in 0..255) THEN V4InV6Prefix \o s.f
  ELSE IF s.k = "v6" THEN s.f
  ELSE <<>>

IsV4Addr(a) == \A i \in 1..12 : a[i] = V4InV6Prefix[i]

\* The text is a CIDR: an address, a slash and a prefix length within the
\* address's width.
CidrParses(c) ==
  \/ c.k = "cidr4" /\ (\A i \in 1..4 : c.f[i] \in 0..255) /\ c.plen \in 0..32
  \/ c.k = "cidr6" /\ c.plen \in 0..128

\* Prefix length of a CIDR counted in the 128-bit space.
PrefixLen128(c) == IF c.k = "cidr4" THEN 96 + c.plen ELSE c.plen

CidrAddr(c) == IF c.k = "cidr4" THEN V4InV6Prefix \o c.f ELSE c.f

\* Host bits of byte i under a prefix of p bits.
HostBits(p, i) ==
  LET r == p - 8 * (i - 1) IN IF r >= 8 THEN 0 ELSE IF r <= 0 THEN 8 ELSE 8 - r

\* Network and broadcast address of a CIDR: host bits all 0, all 1.
NetworkOf(c) ==
  [i \in 1..16 |->
     LET h == 2^HostBits(PrefixLen128(c), i) IN (CidrAddr(c)[i] \div h) * h]
BroadcastOf(c) ==
  [i \in 1..16 |->
     LET h == 2^HostBits(PrefixLen128(c), i) IN (CidrAddr(c)[i] \div h) * h + (h - 1)]

\* The CIDR describes an IPv4 subnet (its network is an IPv4 address).
IsV4Subnet(c) == IsV4Addr(NetworkOf(c))

\* Address a lies in the subnet of CIDR c: same family, same prefix.
InSubnet(a, c) ==
  /\ a # <<>>
  /\ IsV4Addr(a) = IsV4Subnet(c)
  /\ \A i \in 1..16 :
       LET h == 2^HostBits(PrefixLen128(c), i)
       IN a[i] \div h = NetworkOf(c)[i] \div h

\* a < b as numbers.
NumLess(a, b) == \E i \in 1..16 : a[i] < b[i] /\ \A j \in 1..(i - 1) : a[j] = b[j]

\* The text of an address: dotted quad for IPv4, IPv6 text otherwise.
TextOf(a) == IF IsV4Addr(a) THEN [k |-> "v4", f |-> SubSeq(a, 13, 16), plen |-> 0] ELSE T6(a)

\* a + 1 and a - 1 within the subnet's own address width (32 bits for an
\* IPv4 subnet, 128 bits otherwise).
Succ(a, c) ==
  IF IsV4Subnet(c) THEN V4InV6Prefix \o IncAt(SubSeq(a, 13, 16), 4) ELSE IncAt(a, 16)
Pred(a, c) ==
  IF IsV4Subnet(c) THEN V4InV6Prefix \o DecAt(SubSeq(a, 13, 16), 4) ELSE DecAt(a, 16)

IpRuleCalled == last.rule \in {"validateIpv4Fields", "validateIpv6Fields"}
IpRuleCidr == IF last.rule = "validateIpv4Fields" THEN last.pre.Cidr ELSE last.pre.Net6
IpRuleRoutes == IF last.rule = "validateIpv4Fields" THEN last.pre.Routes ELSE last.pre.Routes6
PoolRuleCalled == last.rule = "validateAllocationPool"
TenantRuleCalled == last.rule = "validateTenantNetRules"
AttachSet(m) == m.Device # "" \/ m.Vlan # 0 \/ m.Vxlan # 0

\* ------------------------------------------------------------------ claims

\* C1: whenever validateAllocationPool returns no error on a candidate with
\* a non-empty cidr, pool.start and pool.end as the call leaves them both
\* lie inside the CIDR's subnet and pool.start is numerically less than
\* pool.end.
C1_PoolInsideCidrAndOrdered ==
  (PoolRuleCalled /\ last.err = NoErr /\ newManifest.Cidr # EmptyStr) =>
    /\ InSubnet(AddrOf(newManifest.Start), newManifest.Cidr)
    /\ InSubnet(AddrOf(newManifest.End), newManifest.Cidr)
    /\ NumLess(AddrOf(newManifest.Start), AddrOf(newManifest.End))

\* C2: with an empty CIDR string the IPv4/IPv6 field rule succeeds when the
\* routes mapping is empty or none and fails, with the routes-without-CIDR
\* error, exactly when the mapping holds at least one route.
C2_EmptyCidrFailsIffRoutesNonEmpty ==
  (IpRuleCalled /\ IpRuleCidr = EmptyStr) =>
    /\ (last.err # NoErr) <=> (Len(IpRuleRoutes.gw) > 0)
    /\ last.err # NoErr => last.err = Err(MsgRoutesL2, EmptyStr, EmptyStr)

\* C3: with a non-empty CIDR that parses, the IPv4/IPv6 field rule succeeds
\* exactly when every route gateway is an address inside the CIDR's subnet
\* and otherwise fails with the gateway-outside-CIDR error naming an
\* offending gateway; with a non-empty CIDR that does not parse it fails
\* with the invalid-CIDR error.
C3_GatewaysInsideCidr ==
  (IpRuleCalled /\ IpRuleCidr # EmptyStr) =>
    IF CidrParses(IpRuleCidr)
    THEN /\ (last.err = NoErr) <=>
              (\A d \in DOMAIN IpRuleRoutes.gw :
                 InSubnet(AddrOf(IpRuleRoutes.gw[d]), IpRuleCidr))
         /\ last.err # NoErr =>
              \E d \in DOMAIN IpRuleRoutes.gw :
                /\ ~InSubnet(AddrOf(IpRuleRoutes.gw[d]), IpRuleCidr)
                /\ last.err = Err(MsgGwOutside, IpRuleRoutes.gw[d], IpRuleCidr)
    ELSE last.err = Err(MsgInvalidCidr, IpRuleCidr, EmptyStr)

\* A call that accepted a CIDR with two routes, and one that refused a
\* gateway outside the CIDR.
C3_Witness ==
  /\ IpRuleCalled
  /\ CidrParses(IpRuleCidr)
  /\ Len(IpRuleRoutes.gw) = 2
  /\ last.err = NoErr

\* C4: on Create with a non-empty alloc, validateAllocationPool fails with
\* the alloc-preset error whatever the other fields hold and leaves the
\* candidate as it was; and no kind's rule list accepts such a request.
C4_AllocPresetOnCreateRejected ==
  /\ (PoolRuleCalled /\ opType = Create /\ last.pre.Alloc # "") =>
       /\ last.err = Err(MsgAllocPreset, EmptyStr, EmptyStr)
       /\ newManifest = last.pre
  /\ (pc = "accepted" /\ opType = Create) => newManifest.Alloc = ""

\* The pool rule called on a Create with alloc set, an unparsable cidr and
\* a pool bound set, after the IPv4 rule had already failed.
C4_Witness ==
  /\ PoolRuleCalled
  /\ opType = Create
  /\ last.pre.Alloc # ""
  /\ last.pre.Cidr = Junk
  /\ last.pre.Start # EmptyStr
  /\ failed

\* C5: a manifest accepted by the full rule list of its kind, on Create or
\* Update, never has vlan and vxlan both nonzero.
C5_AcceptedVlanVxlanExclusive ==
  pc = "accepted" => ~(newManifest.Vlan # 0 /\ newManifest.Vxlan # 0)

\* C6: validateTenantNetRules fails on Create exactly when device, vlan or
\* vxlan is set, fails on Update exactly when one of them differs from the
\* previous manifest's value, succeeds otherwise, and leaves the candidate
\* as it was.
C6_TenantRuleExact ==
  TenantRuleCalled =>
    /\ opType = Create =>
         /\ (last.err # NoErr) <=> AttachSet(last.pre)
         /\ last.err # NoErr => last.err = Err(MsgTenantCreate, EmptyStr, EmptyStr)
    /\ opType = Update =>
         /\ (last.err # NoErr) <=>
              \/ last.pre.Device # oldManifest[1].Device
              \/ last.pre.Vlan # oldManifest[1].Vlan
              \/ last.pre.Vxlan # oldManifest[1].Vxlan
         /\ last.err # NoErr => last.err = Err(MsgTenantUpdate, EmptyStr, EmptyStr)
    /\ newManifest = last.pre

\* An Update that changes only the device from eth0 to eth1 is refused.
C6_Witness ==
  /\ TenantRuleCalled
  /\ opType = Update
  /\ oldManifest[1].Device = "eth0"
  /\ last.pre.Device = "eth1"
  /\ last.pre.Vlan = oldManifest[1].Vlan
  /\ last.pre.Vxlan = oldManifest[1].Vxlan
  /\ last.err = Err(MsgTenantUpdate, EmptyStr, EmptyStr)

\* C7: every rule call returns (nil or an error); none panics.
C7_NoRulePanics == last.err # PanicErr

\* C8: a second run of validateAllocationPool on the manifest a first run
\* left gives the first run's outcome and leaves pool.start and pool.end
\* as the first run left them.
C8_PoolRuleIdempotent ==
  Len(poolHist) = 2 =>
    /\ poolHist[2].pre = poolHist[1].post
    /\ poolHist[2].err = poolHist[1].err
    /\ poolHist[2].post.Start = poolHist[1].post.Start
    /\ poolHist[2].post.End = poolHist[1].post.End

\* Two runs, the first of which defaulted both bounds and succeeded.
C8_Witness ==
  /\ Len(poolHist) = 2
  /\ poolHist[1].pre.Start = EmptyStr
  /\ poolHist[1].pre.End = EmptyStr
  /\ poolHist[1].post.Start # EmptyStr
  /\ poolHist[1].err = NoErr

\* C9: when cidr is set and parses (and the rule is not stopped by a preset
\* alloc), validateAllocationPool leaves an empty pool.start at network
\* address + 1 and an empty pool.end at broadcast address - 1, leaves a
\* pool bound the client set as it was, and no rule writes any other field.
C9_PoolDefaults ==
  /\ (PoolRuleCalled /\ CidrParses(last.pre.Cidr)
        /\ ~(opType = Create /\ last.pre.Alloc # "")) =>
       /\ last.pre.Start = EmptyStr =>
            newManifest.Start = TextOf(Succ(NetworkOf(last.pre.Cidr), last.pre.Cidr))
       /\ last.pre.End = EmptyStr =>
            newManifest.End = TextOf(Pred(BroadcastOf(last.pre.Cidr), last.pre.Cidr))
  /\ last.pre.Start # EmptyStr => newManifest.Start = last.pre.Start
  /\ last.pre.End # EmptyStr => newManifest.End = last.pre.End
  /\ [newManifest EXCEPT !.Start = EmptyStr, !.End = EmptyStr]
       = [last.pre EXCEPT !.Start = EmptyStr, !.End = EmptyStr]

\* C10: for a tenant-scoped network created and then updated through the
\* tenant rule list, each Update's previous manifest being the last
\* accepted one, every accepted manifest has device empty and vlan and
\* vxlan zero.
C10_TenantAttachNeverSet ==
  (kind = "TenantNetwork" /\ stored # <<>>) => ~AttachSet(stored[1])

\* A tenant network whose Update has been accepted.
C10_Witness ==
  /\ kind = "TenantNetwork"
  /\ pc = "accepted"
  /\ opType = Update
  /\ stored = <<newManifest>>

====
